---- MODULE Spec2Model ----
(***************************************************************************)
(* A model of bpmn_to_timelapse.py: the history walker's parse loop, the   *)
(* batch render scheduler, the raster stage, the rate synchronizer, the    *)
(* video assembler and the orchestration of generate_timelapse over the    *)
(* filesystem staging areas.                                                *)
(*                                                                         *)
(* External tools (git, bpmn-to-image, rsvg-convert, ffmpeg, ffprobe) are   *)
(* opaque: each invocation either cannot be launched (FileNotFoundError),   *)
(* exits non-zero (CalledProcessError) or exits zero, and what it leaves on *)
(* the filesystem is a nondeterministic choice.                             *)
(***************************************************************************)
EXTENDS Integers, Sequences, FiniteSets, TLC

\* ---------------------------------------------------------------- bounds
MaxCommits == 3      \* commits in a well-formed history (Spec)
MaxJobs == 4         \* length of a job list handed to the scheduler (SpecBatch)
MaxBatch == 2        \* largest batch size tried
MaxLines == 4        \* lines of a raw log handed to the parse loop (SpecWalk)
MaxId == 2           \* distinct commit ids in a raw log (SpecWalk)
MaxDuration == 3     \* largest probed audio duration, in seconds
MaxLow == 2          \* indices sampled on each side of a digit boundary (SpecNames)

\* ------------------------------------------------------ program constants
HashLen == 40        \* length of a full commit hash
DefaultFps == 5      \* the default of --fps
PadWidth == 4        \* frame_{i:04d}: the least number of digits of an index

VARIABLES
    pc,              \* position of generate_timelapse / of the function under test
    abortCause,      \* which uncaught exception ended the run ("none" if none)
    \* inputs and environment
    resolve,         \* find_file_in_repo: "found", "notfound", "giterror"
    rawLog,          \* stdout of git log, as a sequence of lines
    hasRsvg,         \* rsvg-convert is installed
    hasFfmpeg,       \* ffmpeg is installed
    audio_given,     \* --audio was passed
    batch_size,
    \* walker
    commits,         \* what get_commits_for_file returned
    \* filesystem
    dirsCreated,     \* the staging directories have been created in this run
    bpmnDir, svgDir, \* the transient staging directories exist
    bpmnFiles, svgFiles, pngFiles,   \* files: sets of [idx, commit]
    tempFiles,       \* indices k for which frame_k.png.temp.png exists
    \* phase 1
    ext_i, bpmn_svg_pairs, frame_mapping, extractFailed,
    \* phase 2
    batch_start, success_count, invocations, svg_count,
    \* phase 3
    ras_i, png_count, rasterResult,
    \* phase 4
    probe, fps, audio_path, warned,
    imagesBefore, encoder, purged, reportedDone,
    frameOrder       \* the images in the order the encoder took them

vars == << pc, abortCause, resolve, rawLog, hasRsvg, hasFfmpeg, audio_given,
           batch_size, commits, dirsCreated, bpmnDir, svgDir, bpmnFiles,
           svgFiles, pngFiles, tempFiles, ext_i, bpmn_svg_pairs,
           frame_mapping, extractFailed, batch_start, success_count,
           invocations, svg_count, ras_i, png_count, rasterResult, probe, fps,
           audio_path, warned, imagesBefore, encoder, purged, reportedDone,
           frameOrder >>

walkVars  == << commits >>
fsVars    == << dirsCreated, bpmnDir, svgDir, bpmnFiles, svgFiles, pngFiles, tempFiles >>
inputVars == << resolve, rawLog, hasRsvg, hasFfmpeg, audio_given, batch_size >>
p1Vars    == << ext_i, bpmn_svg_pairs, frame_mapping, extractFailed >>
p2Vars    == << batch_start, success_count, invocations, svg_count >>
p3Vars    == << ras_i, png_count, rasterResult >>
p4Vars    == << probe, fps, audio_path, warned, imagesBefore, encoder, purged, reportedDone,
                 frameOrder >>

\* ------------------------------------------------------------- utilities
Min(a, b) == IF a <= b THEN a ELSE b

Range(s) == { s[k] : k \in 1..Len(s) }

SeqsUpTo(S, n) == UNION { [1..k -> S] : k \in 0..n }

RECURSIVE Concat(_)
Concat(ss) == IF ss = << >> THEN << >> ELSE Head(ss) \o Concat(Tail(ss))

\* ------------------------------------------------------------ raw log lines
\* A line of git log's output.  "hdr": `<id> <timestamp> <message>` whose first
\* field has hashLen characters; tsInt says whether the second field is an
\* integer literal.  "path": a line with no leading blank that is no header.
\* "indent": a non-empty line that starts with a blank.  "blank": the empty line.
HdrLine(c, ok)  == [kind |-> "hdr",    id |-> c, hashLen |-> HashLen, tsInt |-> ok,   path |-> 0]
PathLine(p)     == [kind |-> "path",   id |-> 0, hashLen |-> 0,       tsInt |-> TRUE, path |-> p]
BlankLine       == [kind |-> "blank",  id |-> 0, hashLen |-> 0,       tsInt |-> TRUE, path |-> 0]
IndentLine      == [kind |-> "indent", id |-> 0, hashLen |-> 0,       tsInt |-> TRUE, path |-> 1]

\* A CommitRecord: the header's id and the text of the line taken as its path.
CommitRecord(h, l) == [id |-> h.id, file_path |-> l]

RECURSIVE DropLeadingBlank(_)
DropLeadingBlank(ls) ==
    IF ls # << >> /\ Head(ls).kind = "blank" THEN DropLeadingBlank(Tail(ls)) ELSE ls

RECURSIVE DropTrailingBlank(_)
DropTrailingBlank(ls) ==
    IF ls # << >> /\ ls[Len(ls)].kind = "blank"
    THEN DropTrailingBlank(SubSeq(ls, 1, Len(ls) - 1))
    ELSE ls

\* result.stdout.strip().split('\n'): leading and trailing white space goes,
\* so the first line loses its indentation; the empty output is one empty line.
SplitLines(out) ==
    LET s == DropTrailingBlank(DropLeadingBlank(out))
    IN  IF s = << >> THEN << BlankLine >>
        ELSE IF s[1].kind = "indent" THEN << PathLine(s[1].path) >> \o Tail(s)
        ELSE s

\* line.split(' ', 2) has >= 2 parts and a first part of 40 characters
IsHeader(line) == line.kind = "hdr" /\ line.hashLen = HashLen

RECURSIVE SkipEmpty(_, _)
SkipEmpty(lines, i) ==
    IF i <= Len(lines) /\ lines[i].kind = "blank" THEN SkipEmpty(lines, i + 1) ELSE i

\* lines[i] and not lines[i].startswith(' ')
TakenAsPath(line) == line.kind # "blank" /\ line.kind # "indent"

\* The while loop of get_commits_for_file from position i with the commits
\* appended so far; int(parts[1]) raises ValueError out of the loop.
RECURSIVE ParseLoop(_, _, _)
ParseLoop(lines, i, acc) ==
    IF i > Len(lines) THEN [raised |-> FALSE, commits |-> acc]
    ELSE IF lines[i].kind = "blank" THEN ParseLoop(lines, i + 1, acc)
    ELSE IF IsHeader(lines[i]) THEN
        IF ~lines[i].tsInt THEN [raised |-> TRUE, commits |-> acc]
        ELSE LET j == SkipEmpty(lines, i + 1)
             IN  IF j <= Len(lines) /\ TakenAsPath(lines[j])
                 THEN ParseLoop(lines, j + 1, Append(acc, CommitRecord(lines[i], lines[j])))
                 ELSE ParseLoop(lines, j + 1, acc)
    ELSE ParseLoop(lines, i + 1, acc)

\* list(reversed(commits))
OldestFirstMut(s) == s
OldestFirst(s) == [k \in 1..Len(s) |-> s[Len(s) + 1 - k]]

\* --------------------------------------------------------------- files
\* A staging area is a set of files [idx, commit]: frame_<idx>.<ext> holding
\* (a rendering of) the content of that commit.
HasFile(files, k) == \E f \in files : f.idx = k

Put(files, k, c) == { f \in files : f.idx # k } \cup { [idx |-> k, commit |-> c] }

ContentOf(files, k) == (CHOOSE f \in files : f.idx = k).commit

\* ------------------------------------------------------------ histories
\* The output of git log for n commits, newest first; the commit with id k is
\* the k-th oldest, and the file was renamed after the r oldest commits.
RECURSIVE LogOf(_, _)
LogOf(n, r) ==
    IF n = 0 THEN << >>
    ELSE << HdrLine(n, TRUE), BlankLine, PathLine(IF n <= r THEN 1 ELSE 2) >>
         \o LogOf(n - 1, r)

WellFormedLogs == { LogOf(n, r) : n \in 0..MaxCommits, r \in {0, 1} }

LineAlphabet ==
    { HdrLine(c, ok) : c \in 1..MaxId, ok \in BOOLEAN }
    \cup { PathLine(p) : p \in 1..2 } \cup { BlankLine, IndentLine }

\* ------------------------------------------------------------------ Init
Rest ==
    /\ abortCause = "none"
    /\ commits = << >>
    /\ dirsCreated = FALSE
    /\ bpmnFiles = {} /\ svgFiles = {} /\ tempFiles = {}
    /\ ext_i = 1 /\ bpmn_svg_pairs = << >> /\ frame_mapping = << >>
    /\ extractFailed = FALSE
    /\ batch_start = 0 /\ success_count = 0 /\ invocations = << >>
    /\ svg_count = -1
    /\ ras_i = 1 /\ png_count = 0 /\ rasterResult = << >>
    /\ probe = [status |-> "none", d |-> 0] /\ fps = [num |-> DefaultFps, den |-> 1]
    /\ audio_path = audio_given /\ warned = FALSE
    /\ imagesBefore = [png |-> {}, temp |-> {}] /\ encoder = "none" /\ purged = FALSE
    /\ reportedDone = FALSE
    /\ frameOrder = << >>

\* A frame bitmap of an earlier run, of some other content.
StaleFrame == [idx |-> 1, commit |-> 0]

\* A run of generate_timelapse over a well-formed history; ./output/frames
\* either does not exist or is what an earlier run left behind.
Init ==
    /\ pc = "start"
    /\ \E stale \in BOOLEAN :
         /\ bpmnDir = stale /\ svgDir = stale
         /\ pngFiles = IF stale THEN {StaleFrame} ELSE {}
    /\ resolve \in {"found", "notfound", "giterror"}
    /\ rawLog \in WellFormedLogs
    /\ resolve # "found" => rawLog = << >>
    /\ hasRsvg \in BOOLEAN /\ hasFfmpeg \in BOOLEAN
    /\ audio_given \in BOOLEAN
    /\ batch_size \in 1..MaxBatch
    /\ Rest

\* ------------------------------------------------- generate_timelapse
Abort(cause) == pc' = "aborted" /\ abortCause' = cause

\* lines 330-337: remove an existing output directory, create the three
\* directories afresh
MakeDirs ==
    /\ pc = "start"
    /\ pc' = "walk"
    /\ dirsCreated' = TRUE /\ bpmnDir' = TRUE /\ svgDir' = TRUE
    /\ bpmnFiles' = {} /\ svgFiles' = {} /\ pngFiles' = {} /\ tempFiles' = {}
    /\ UNCHANGED << abortCause, inputVars, walkVars, p1Vars, p2Vars, p3Vars, p4Vars >>

\* get_commits_for_file, and the test of its result at lines 345-347
get_commits_for_file ==
    /\ pc = "walk"
    /\ IF resolve = "giterror" THEN
            Abort("resolution") /\ UNCHANGED commits
       ELSE IF resolve = "notfound" THEN
            /\ commits' = << >>
            /\ pc' = "noCommits"
            /\ UNCHANGED abortCause
       ELSE LET r == ParseLoop(SplitLines(rawLog), 1, << >>)
            IN  IF r.raised THEN Abort("parse") /\ UNCHANGED commits
                ELSE /\ commits' = OldestFirst(r.commits)
                     /\ pc' = IF r.commits = << >> THEN "noCommits" ELSE "extract"
                     /\ UNCHANGED abortCause
    /\ UNCHANGED << inputVars, fsVars, p1Vars, p2Vars, p3Vars, p4Vars >>

\* the sequence index that names the artifacts of the i-th commit (line 359)
SequenceIndex(i) == i

\* one iteration of the loop at lines 359-366 whose checkout succeeds
ExtractOk ==
    /\ pc = "extract"
    /\ ext_i <= Len(commits)
    /\ LET k == SequenceIndex(ext_i)
       IN  /\ bpmnFiles' = Put(bpmnFiles, k, commits[ext_i].id)
           /\ bpmn_svg_pairs' = Append(bpmn_svg_pairs, [bpmn |-> k, svg |-> k])
           /\ frame_mapping' = Append(frame_mapping,
                                      [frame_num |-> k, commit |-> commits[ext_i]])
    /\ ext_i' = ext_i + 1
    /\ pc' = IF ext_i = Len(commits) THEN "batch" ELSE "extract"
    /\ UNCHANGED << abortCause, inputVars, walkVars, extractFailed, dirsCreated,
                    bpmnDir, svgDir, svgFiles, pngFiles, tempFiles,
                    p2Vars, p3Vars, p4Vars >>

\* checkout_file_version raises CalledProcessError (git show fails): nothing
\* in generate_timelapse catches it
ExtractFail ==
    /\ pc = "extract"
    /\ ext_i <= Len(commits)
    /\ extractFailed' = TRUE
    /\ Abort("materialization")
    /\ UNCHANGED << inputVars, walkVars, fsVars, ext_i, bpmn_svg_pairs,
                    frame_mapping, p2Vars, p3Vars, p4Vars >>

\* ------------------------------------------- batch_convert_bpmn_to_svg
\* line 136: batch_end = min(batch_start + batch_size, total)
BatchEndMut(start, size, total) == Min(start + size + 1, total)
BatchEnd(start, size, total) == Min(start + size, total)

\* line 137: bpmn_svg_pairs[batch_start:batch_end] (0-based, end exclusive)
BatchSlice(pairs, start, end) == SubSeq(pairs, start + 1, end)

\* lines 150 and 157-158: what one invocation adds to success_count
BatchSuccess(exit, batch, files) ==
    IF exit = "ok" THEN Len(batch)
    ELSE Cardinality({ k \in 1..Len(batch) : HasFile(files, batch[k].svg) })

\* what the renderer wrote for the pairs of `written`: the rendering of the
\* source artifact of each
Rendered(written) ==
    { [idx |-> p.svg, commit |-> ContentOf(bpmnFiles, p.bpmn)] : p \in written }

\* one iteration of the loop at lines 135-159: the renderer is launched on one
\* batch, exits zero or non-zero, and has written the outputs of any subset
\* of the batch
BatchInvoke ==
    /\ pc = "batch"
    /\ batch_start < Len(bpmn_svg_pairs)
    /\ LET total == Len(bpmn_svg_pairs)
           batch == BatchSlice(bpmn_svg_pairs, batch_start,
                               BatchEnd(batch_start, batch_size, total))
       IN  \E exit \in {"ok", "CalledProcessError"}, written \in SUBSET Range(batch) :
             LET files == { f \in svgFiles : ~\E p \in written : p.svg = f.idx }
                              \cup Rendered(written)
             IN  /\ svgFiles' = files
                 /\ success_count' = success_count + BatchSuccess(exit, batch, files)
                 /\ invocations' = Append(invocations,
                                          [batch |-> batch, exit |-> exit, written |-> written])
    /\ batch_start' = batch_start + batch_size
    /\ UNCHANGED << pc, abortCause, inputVars, walkVars, p1Vars, svg_count,
                    dirsCreated, bpmnDir, svgDir, bpmnFiles, pngFiles, tempFiles,
                    p3Vars, p4Vars >>

\* bpmn-to-image is not installed: subprocess.run raises FileNotFoundError,
\* which the except clause at line 153 does not catch
BatchRendererMissing ==
    /\ pc = "batch"
    /\ batch_start = 0
    /\ 0 < Len(bpmn_svg_pairs)
    /\ Abort("renderer")
    /\ UNCHANGED << inputVars, walkVars, fsVars, p1Vars, p2Vars, p3Vars, p4Vars >>

\* lines 128-129 and 161: the job list is empty or exhausted
BatchReturn ==
    /\ pc = "batch"
    /\ batch_start >= Len(bpmn_svg_pairs)
    /\ svg_count' = success_count
    /\ pc' = "raster"
    /\ UNCHANGED << abortCause, inputVars, walkVars, fsVars, p1Vars, batch_start,
                    success_count, invocations, p3Vars, p4Vars >>

\* ----------------------------------------------------------- svg_to_png
\* The outcome of one call: rsvgOk / ffmpegOk are the exit statuses the two
\* tools would give.  ok: the return value; temp: <output>.temp.png exists on
\* return; png: the output bitmap was written.
svg_to_png(rsvgOk, ffmpegOk) ==
    IF ~hasRsvg THEN          \* FileNotFoundError, lines 222-224
        [ok |-> FALSE, temp |-> FALSE, png |-> FALSE]
    ELSE IF ~rsvgOk THEN      \* CalledProcessError, lines 216-221
        [ok |-> FALSE, temp |-> FALSE, png |-> FALSE]
    ELSE IF ~hasFfmpeg THEN   \* FileNotFoundError after rsvg-convert wrote temp_png
        [ok |-> FALSE, temp |-> TRUE, png |-> FALSE]
    ELSE IF ~ffmpegOk THEN    \* CalledProcessError, lines 216-221
        [ok |-> FALSE, temp |-> FALSE, png |-> FALSE]
    ELSE                      \* lines 214-215
        [ok |-> TRUE, temp |-> FALSE, png |-> TRUE]

\* line 398: the index naming the final bitmap of the i-th entry of
\* frame_mapping, count bitmaps having been produced so far
OutputIndexMut(i, frame_num, count) == count + 1
OutputIndex(i, frame_num, count) == frame_num

\* one iteration of the loop at lines 386-400
RasterStep ==
    /\ pc = "raster"
    /\ ras_i <= Len(frame_mapping)
    /\ LET fm == frame_mapping[ras_i]
           k  == OutputIndex(ras_i, fm.frame_num, png_count)
       IN  IF ~HasFile(svgFiles, fm.frame_num) THEN
                /\ rasterResult' = Append(rasterResult, "skipped")
                /\ UNCHANGED << pngFiles, tempFiles, png_count >>
           ELSE \E rsvgOk \in BOOLEAN, ffmpegOk \in BOOLEAN :
                LET r == svg_to_png(rsvgOk, ffmpegOk)
                IN  /\ rasterResult' = Append(rasterResult, IF r.ok THEN "ok" ELSE "failed")
                    /\ pngFiles' = IF r.png
                                   THEN Put(pngFiles, k, ContentOf(svgFiles, fm.frame_num))
                                   ELSE pngFiles
                    /\ tempFiles' = IF r.temp THEN tempFiles \cup {k} ELSE tempFiles \ {k}
                    /\ png_count' = IF r.ok THEN png_count + 1 ELSE png_count
    /\ ras_i' = ras_i + 1
    /\ pc' = IF ras_i = Len(frame_mapping) THEN "cleanup" ELSE "raster"
    /\ UNCHANGED << abortCause, inputVars, walkVars, p1Vars, p2Vars, p4Vars,
                    dirsCreated, bpmnDir, svgDir, bpmnFiles, svgFiles >>

\* lines 409-412
CleanupStaging ==
    /\ pc = "cleanup"
    /\ bpmnDir' = FALSE /\ svgDir' = FALSE
    /\ bpmnFiles' = {} /\ svgFiles' = {}
    /\ pc' = "rate"
    /\ UNCHANGED << abortCause, inputVars, walkVars, p1Vars, p2Vars, p3Vars, p4Vars,
                    dirsCreated, pngFiles, tempFiles >>

\* ------------------------------------------------- rate synchronization
\* A frame rate is the fraction num/den of two naturals.
FixedRate == [num |-> DefaultFps, den |-> 1]

\* what the call of ffprobe can give: it cannot be launched, it exits
\* non-zero, it prints something float() rejects, or it prints a duration
ProbeOutcomes ==
    { [status |-> e, d |-> 0] : e \in {"FileNotFoundError", "CalledProcessError", "ValueError"} }
    \cup { [status |-> "ok", d |-> n] : n \in 0..MaxDuration }

NoProbe == [status |-> "none", d |-> 0]

\* get_audio_duration: the duration, or None (lines 235-240)
get_audio_duration(out) ==
    IF out.status = "ok" THEN [none |-> FALSE, d |-> out.d] ELSE [none |-> TRUE, d |-> 0]

\* `if audio_duration:` (line 420): None and 0.0 are false
Truthy(r) == ~r.none /\ r.d # 0

\* lines 417-432
DecideRate ==
    /\ pc = "rate"
    /\ IF ~audio_given THEN
            /\ pc' = "assemble"
            /\ UNCHANGED << abortCause, probe, fps, audio_path, warned >>
       ELSE \E out \in ProbeOutcomes :
            /\ probe' = out
            /\ IF out.status = "FileNotFoundError" THEN
                    Abort("probe") /\ UNCHANGED << fps, audio_path, warned >>
               ELSE LET r == get_audio_duration(out)
                    IN  /\ pc' = "assemble"
                        /\ UNCHANGED abortCause
                        /\ IF Truthy(r) THEN
                                /\ fps' = [num |-> png_count, den |-> r.d]
                                /\ warned' = (png_count < r.d)      \* fps < 1
                                /\ UNCHANGED audio_path
                           ELSE /\ audio_path' = FALSE
                                /\ UNCHANGED << fps, warned >>
    /\ UNCHANGED << inputVars, walkVars, fsVars, p1Vars, p2Vars, p3Vars,
                    imagesBefore, encoder, purged, reportedDone, frameOrder >>

\* ----------------------------------------------- create_timelapse_video
\* line 246: Path(image_dir).glob('*.png') matches the final bitmaps and any
\* frame_<k>.png.temp.png left in the directory
Images == [png |-> { f.idx : f \in pngFiles }, temp |-> tempFiles]

\* the decimal digits of k as character codes, most significant first
RECURSIVE Digits(_)
Digits(k) == IF k < 10 THEN << 48 + k >> ELSE Append(Digits(k \div 10), 48 + (k % 10))

\* {k:04d}: zeros are put in front while there are fewer than PadWidth digits;
\* a longer number is left as it is
RECURSIVE ZeroPad(_)
ZeroPad(ds) == IF Len(ds) >= PadWidth THEN ds ELSE ZeroPad(<< 48 >> \o ds)

\* what follows the digits in a file name: ".png" and ".png.temp.png"
PngSuffix == << 46, 112, 110, 103 >>
TempSuffix == PngSuffix \o << 46, 116, 101, 109, 112 >> \o PngSuffix

\* the name of an image, after the common prefix "frame_" (lines 398 and 180)
ImageName(img) == ZeroPad(Digits(img.idx)) \o (IF img.temp THEN TempSuffix ELSE PngSuffix)

\* string comparison, character by character
RECURSIVE LexLess(_, _)
LexLess(a, b) ==
    IF b = << >> THEN FALSE
    ELSE IF a = << >> THEN TRUE
    ELSE IF Head(a) # Head(b) THEN Head(a) < Head(b)
    ELSE LexLess(Tail(a), Tail(b))

\* the files '*.png' matches, sorted by name (line 246; ffmpeg's glob pattern
\* at lines 258-259 takes them in the same order)
RECURSIVE GlobOrder(_)
GlobOrder(imgs) ==
    IF imgs = {} THEN << >>
    ELSE LET first == CHOOSE x \in imgs :
                        \A y \in imgs \ {x} : LexLess(ImageName(x), ImageName(y))
         IN  << first >> \o GlobOrder(imgs \ {first})

ImageFiles ==
    { [idx |-> k, temp |-> FALSE] : k \in Images.png }
    \cup { [idx |-> k, temp |-> TRUE] : k \in Images.temp }

\* lines 246-279: list the images and run the encoder
EncoderInvoke ==
    /\ pc = "assemble"
    /\ imagesBefore' = Images
    /\ IF Images.png = {} /\ Images.temp = {} THEN
            /\ encoder' = "noimages"
            /\ pc' = "encoderReturned"
            /\ UNCHANGED << abortCause, frameOrder >>
       ELSE IF ~hasFfmpeg THEN
            Abort("encoder") /\ UNCHANGED << encoder, frameOrder >>
       ELSE /\ encoder' \in {"ok", "CalledProcessError"}
            /\ frameOrder' = GlobOrder(ImageFiles)
            /\ pc' = "encoderReturned"
            /\ UNCHANGED abortCause
    /\ UNCHANGED << inputVars, walkVars, fsVars, p1Vars, p2Vars, p3Vars,
                    probe, fps, audio_path, warned, purged, reportedDone >>

\* whether shutil.rmtree(image_dir) at line 284 is reached
PurgesMut(enc) == enc # "noimages"
Purges(enc) == enc = "ok"

\* lines 280-289 and 248-250: purge and return True, or return False
EncoderReturn ==
    /\ pc = "encoderReturned"
    /\ IF Purges(encoder)
       THEN pngFiles' = {} /\ tempFiles' = {} /\ purged' = TRUE
       ELSE UNCHANGED << pngFiles, tempFiles, purged >>
    /\ pc' = "report"
    /\ UNCHANGED << abortCause, inputVars, walkVars, p1Vars, p2Vars, p3Vars,
                    dirsCreated, bpmnDir, svgDir, bpmnFiles, svgFiles,
                    probe, fps, audio_path, warned, imagesBefore, encoder, reportedDone,
                    frameOrder >>

\* lines 434-439: the result of create_timelapse_video is not looked at
ReportDone ==
    /\ pc = "report"
    /\ reportedDone' = TRUE
    /\ pc' = "done"
    /\ UNCHANGED << abortCause, inputVars, walkVars, fsVars, p1Vars, p2Vars, p3Vars,
                    probe, fps, audio_path, warned, imagesBefore, encoder, purged,
                    frameOrder >>

Next ==
    \/ MakeDirs
    \/ get_commits_for_file
    \/ ExtractOk
    \/ ExtractFail
    \/ BatchInvoke
    \/ BatchRendererMissing
    \/ BatchReturn
    \/ RasterStep
    \/ CleanupStaging
    \/ DecideRate
    \/ EncoderInvoke
    \/ EncoderReturn
    \/ ReportDone

Spec == Init /\ [][Next]_vars

\* ------------------------------------------------------------ SpecBatch
\* batch_convert_bpmn_to_svg on its own: any job list of 0..MaxJobs pairs and
\* any batch size of 1..MaxBatch.
JobList(n) == [k \in 1..n |-> [bpmn |-> k, svg |-> k]]

InitBatch ==
    /\ pc = "batch"
    /\ resolve = "found" /\ rawLog = << >>
    /\ hasRsvg = TRUE /\ hasFfmpeg = TRUE /\ audio_given = FALSE
    /\ batch_size \in 1..MaxBatch
    /\ \E n \in 0..MaxJobs :
         /\ bpmn_svg_pairs = JobList(n)
         /\ bpmnFiles = { [idx |-> k, commit |-> k] : k \in 1..n }
    /\ abortCause = "none"
    /\ commits = << >>
    /\ dirsCreated = TRUE /\ bpmnDir = TRUE /\ svgDir = TRUE
    /\ svgFiles = {} /\ pngFiles = {} /\ tempFiles = {}
    /\ ext_i = 1 /\ frame_mapping = << >> /\ extractFailed = FALSE
    /\ batch_start = 0 /\ success_count = 0 /\ invocations = << >>
    /\ svg_count = -1
    /\ ras_i = 1 /\ png_count = 0 /\ rasterResult = << >>
    /\ probe = [status |-> "none", d |-> 0] /\ fps = FixedRate
    /\ audio_path = FALSE /\ warned = FALSE
    /\ imagesBefore = [png |-> {}, temp |-> {}] /\ encoder = "none" /\ purged = FALSE
    /\ reportedDone = FALSE
    /\ frameOrder = << >>

NextBatch == BatchInvoke \/ BatchRendererMissing \/ BatchReturn

SpecBatch == InitBatch /\ [][NextBatch]_vars

\* ------------------------------------------------------------- SpecWalk
\* get_commits_for_file on its own: any raw log of at most MaxLines lines.
InitWalk ==
    /\ pc = "walk"
    /\ resolve = "found"
    /\ rawLog \in SeqsUpTo(LineAlphabet, MaxLines)
    /\ hasRsvg = TRUE /\ hasFfmpeg = TRUE /\ audio_given = FALSE
    /\ batch_size = 1
    /\ bpmnDir = FALSE /\ svgDir = FALSE /\ pngFiles = {}
    /\ Rest

NextWalk == get_commits_for_file

SpecWalk == InitWalk /\ [][NextWalk]_vars

\* =============================================================== claims
Planned ==
    \/ pc \in {"batch", "raster", "cleanup", "rate", "assemble",
               "encoderReturned", "report", "done"}
    \/ abortCause \in {"renderer", "probe", "encoder"}

RunEnded == pc \in {"done", "noCommits", "aborted"}

\* the least m with m * b >= l
CeilDiv(l, b) == CHOOSE m \in 0..l : m * b >= l /\ \A j \in 0..l : j * b >= l => m <= j

Batches == [k \in 1..Len(invocations) |-> invocations[k].batch]

Confirmed ==
    { p \in Range(bpmn_svg_pairs) :
        \E k \in 1..Len(invocations) : p \in invocations[k].written }

\* C2: the count batch_convert_bpmn_to_svg returns is the number of submitted
\* pairs whose intermediate artifact exists after its batch's invocation,
\* whatever the exit status of that invocation.
C2_CountIsExistingOutputs ==
    pc = "raster" => svg_count = Cardinality(Confirmed)

\* C3: a failed materialization of one commit never aborts the run.
C3_MaterializationNotFatal ==
    extractFailed => pc # "aborted"

\* C4: once the staging directories have been created, the bpmn and svg
\* staging directories are gone whenever the run has ended.
C4_StagingGoneAtEnd ==
    (dirsCreated /\ RunEnded) => (~bpmnDir /\ ~svgDir)

\* C5: the bitmaps are purged only after the encoder has returned success, and
\* when the encoder fails, cannot be launched or finds no bitmap, every file
\* that was in the image directory before assembly is still there.
C5_PurgeOnlyAfterSuccess ==
    /\ purged => encoder = "ok"
    /\ encoder # "ok" /\ (pc \in {"encoderReturned", "report", "done"} \/ abortCause = "encoder")
          => Images = imagesBefore

\* C5 witness: the encoder failed over a non-empty set of bitmaps and the run
\* went on to its end with all of them still present.
C5_Witness ==
    /\ pc = "done" /\ encoder = "CalledProcessError"
    /\ imagesBefore.png # {} /\ Images = imagesBefore

RateDecided ==
    \/ pc \in {"assemble", "encoderReturned", "report", "done"}
    \/ abortCause \in {"probe", "encoder"}

\* C6: without audio the fixed rate and no audio; with a probed duration D the
\* rate png_count / D with the audio muxed (warning when below 1); with a
\* failed probe the fixed rate and no audio, without aborting.
C6_RateDecision ==
    RateDecided =>
        /\ ~audio_given => fps = FixedRate /\ ~audio_path
        /\ audio_given /\ probe.status = "ok" /\ probe.d > 0 =>
              /\ fps = [num |-> png_count, den |-> probe.d]
              /\ audio_path
              /\ png_count < probe.d => warned
        /\ audio_given /\ probe.status \in {"FileNotFoundError", "CalledProcessError", "ValueError"} =>
              /\ fps = FixedRate /\ ~audio_path
              /\ abortCause # "probe"

\* C7: after a failed svg_to_png the attempt's <output>.temp.png does not exist.
C7_NoTempAfterFailure ==
    \A k \in 1..Len(rasterResult) :
        rasterResult[k] = "failed" => frame_mapping[k].frame_num \notin tempFiles

\* the ids of the commit headers of the raw log, newest first
HeaderIds == LET h == SelectSeq(rawLog, LAMBDA l : l.kind = "hdr")
             IN  [k \in 1..Len(h) |-> h[k].id]

\* the id of the k-th oldest commit of the raw log
KthOldest(k) == HeaderIds[Len(HeaderIds) + 1 - k]

\* C8: after plan creation there is one frame plan per commit of the walk, with
\* indices 1..n in order, index k on the k-th oldest commit of the raw log; and
\* at all times every source, intermediate and final artifact named by index k
\* holds the content of the k-th oldest commit, whichever frames were dropped.
C8_FramePlans ==
    /\ Planned =>
          /\ Len(frame_mapping) = Len(commits)
          /\ Len(commits) = Len(HeaderIds)
          /\ \A k \in 1..Len(frame_mapping) :
                /\ frame_mapping[k].frame_num = k
                /\ frame_mapping[k].commit = commits[k]
                /\ commits[k].id = KthOldest(k)
    /\ dirsCreated =>
          \A f \in bpmnFiles \cup svgFiles \cup pngFiles :
              f.idx \in 1..Len(HeaderIds) /\ f.commit = KthOldest(f.idx)

\* C8 witness: three plans, the first frame dropped by the batch stage, the
\* second by the raster stage, and the third bitmap produced.
C8_Witness ==
    /\ pc = "rate" /\ Len(frame_mapping) = 3
    /\ rasterResult = << "skipped", "failed", "ok" >>
    /\ HasFile(pngFiles, 3) /\ ~HasFile(pngFiles, 1) /\ ~HasFile(pngFiles, 2)

\* C9: when the encoder invocation fails the run is never reported as done.
C9_EncoderFailureFatal ==
    encoder = "CalledProcessError" => (~reportedDone /\ pc # "done")

\* the first non-empty line after position i, or 0
RECURSIVE NextNonBlank(_, _)
NextNonBlank(lines, i) ==
    IF i >= Len(lines) THEN 0
    ELSE IF lines[i + 1].kind # "blank" THEN i + 1
    ELSE NextNonBlank(lines, i + 1)

\* the well-formed entries of a raw log from position i on, in log order: a
\* header with an integer timestamp whose next non-empty line is a path line
RECURSIVE WellFormedEntries(_, _)
WellFormedEntries(lines, i) ==
    IF i > Len(lines) THEN << >>
    ELSE LET j == NextNonBlank(lines, i)
             rest == WellFormedEntries(lines, i + 1)
         IN  IF /\ lines[i].kind = "hdr" /\ lines[i].tsInt
                /\ j # 0 /\ lines[j].kind = "path"
             THEN << [id |-> lines[i].id, file_path |-> lines[j]] >> \o rest
             ELSE rest

RECURSIVE Reversed(_)
Reversed(s) == IF s = << >> THEN << >> ELSE Append(Reversed(Tail(s)), Head(s))

\* C10: on every raw log the parse loop ends without raising and returns
\* exactly the well-formed entries (oldest first), each with its own path line.
C10_ParseKeepsWellFormed ==
    pc # "walk" =>
        /\ abortCause = "none"
        /\ commits = Reversed(WellFormedEntries(rawLog, 1))

\* ------------------------------------------------------------ SpecNames
\* create_timelapse_video over the bitmaps of a long history: the frames that
\* survived the batch and raster stages, with sequence indices among the
\* first MaxLow and those within MaxLow of the first index that needs more
\* than PadWidth digits.
RECURSIVE Pow10(_)
Pow10(n) == IF n = 0 THEN 1 ELSE 10 * Pow10(n - 1)

SampleIndices ==
    (1..MaxLow) \cup ((Pow10(PadWidth) - MaxLow)..(Pow10(PadWidth) + MaxLow - 1))

InitNames ==
    /\ pc = "assemble"
    /\ resolve = "found" /\ rawLog = << >>
    /\ hasRsvg = TRUE /\ hasFfmpeg = TRUE /\ audio_given = FALSE
    /\ batch_size = 1
    /\ \E produced \in SUBSET SampleIndices :
         pngFiles = { [idx |-> k, commit |-> k] : k \in produced }
    /\ bpmnDir = FALSE /\ svgDir = FALSE
    /\ Rest

NextNames == EncoderInvoke \/ EncoderReturn \/ ReportDone

SpecNames == InitNames /\ [][NextNames]_vars

\* C11: the final bitmaps are taken by the encoder in ascending sequence
\* index: no bitmap comes before one with a smaller index, however many
\* frames there are and whichever were dropped.
C11_LexOrderIsIndexOrder ==
    \A a, b \in 1..Len(frameOrder) :
        (a < b /\ ~frameOrder[a].temp /\ ~frameOrder[b].temp)
            => frameOrder[a].idx < frameOrder[b].idx

====
